---- MODULE Spec2Model ----
(***************************************************************************)
(* Model of springmemo's note window (src/notegui.py): the body codec of   *)
(* NormalNote (GetBodyFromSource / SerializeBody) and the autosave logic   *)
(* of Note (is_modified flag, wx.Timer, OnChange / OnTimerEvent /          *)
(* OnStatus / OnClose), the memo's row in the memo list (MemoNode:         *)
(* OnButtonIsOpen / OnButtonModify), and the task bar icon's "new memo"    *)
(* request with its selection dialog (NoteTaskBar.OnNew, SelectNoteDlg).   *)
(*                                                                         *)
(* Strings are sequences of tokens: the characters of the editor text and  *)
(* the markup tags the codec reads and writes, each tag one token.         *)
(*                                                                         *)
(* wx runs every handler on the single GUI thread.  memo.save_memo() is a  *)
(* blocking call made from inside a handler, so a handler that saves is    *)
(* modelled in two steps (the call begins, the call returns); user input   *)
(* that arrives in between waits in the event queue.                       *)
(***************************************************************************)
EXTENDS Integers, Sequences, FiniteSets, TLC

VARIABLES
    created,      \* NormalNote.__init__ returned without raising
    hasPage,      \* memo.page is set
    source,       \* memo.page.source, the stored markup
    body,         \* self.body, the text decoded at construction
    text,         \* the value of the text control (GetBody / SetBody)
    is_modified,  \* self.is_modified
    timer,        \* self.timer: running, and the time left until it notifies
    shown,        \* the frame is visible
    closed,       \* memo.close_memo() has been called
    pc,           \* "idle", or "saving" while a handler waits in save_memo
    payload,      \* the serialized body the waiting save_memo call carries
    queue,        \* user input waiting for the GUI thread
    sinceEdit,    \* time since OnChange last ran (history, capped)
    editsSince,   \* OnChange runs since the note last began a save (history)
    save,         \* how the waiting save began (history)
    lastOutcome,  \* how the latest save_memo call of the note ended (history)
    via,          \* how the latest handler was entered (history)
    is_open,      \* memo.header.is_open
    storedOpen,   \* the is_open value the service holds
    on_modifying, \* MemoNode.on_modifying
    title,        \* memo.page.title
    inflight,     \* save_memo calls that have not returned
    select_memo,  \* NoteTaskBar.select_memo: None, or the selection dialog
    selected_type, \* SelectNoteDlg.selected_type
    dlg_title,    \* the value of SelectNoteDlg.text_title
    dialogs,      \* SelectNoteDlg objects constructed and not destroyed
    memos,        \* the memos create_new_memo has been asked for
    lastNew       \* what the latest OnNew did (history)

(* The memo-list row's state, which the note's own handlers leave alone. *)
listVars == <<is_open, on_modifying, title>>

(* The task bar icon's state and its selection dialog's, which the note's  *)
(* and the memo list's handlers leave alone.                               *)
taskVars == <<select_memo, selected_type, dlg_title, dialogs, memos, lastNew>>

(* The state of the note and of its row in the memo list. *)
noteVars == <<created, hasPage, source, body, text, is_modified, timer, shown,
              closed, pc, payload, queue, sinceEdit, editsSince, save,
              lastOutcome, via, is_open, storedOpen, on_modifying, title,
              inflight>>

vars == <<created, hasPage, source, body, text, is_modified, timer, shown,
          closed, pc, payload, queue, sinceEdit, editsSince, save,
          lastOutcome, via, is_open, storedOpen, on_modifying, title,
          inflight, select_memo, selected_type, dlg_title, dialogs, memos,
          lastNew>>

----------------------------------------------------------------------------
(* Bounds *)

MaxQueue == 1
TicksPerQuiet == 2
MaxEdits == 2
MaxMemos == 2

(* Program constants *)

DEFAULT_TIMER_TIME == 5000

----------------------------------------------------------------------------
(* Tokens *)

NL == "\n"
DIV_BODY == "<div id=\"body\">"
DIV_PLAIN == "<div>"
DIV_CLOSE == "</div>"
P_OPEN == "<p>"
P_CLOSE == "</p>"

(* Clock granularity: the quiet period is TicksPerQuiet steps of the clock. *)
Step == DEFAULT_TIMER_TIME \div TicksPerQuiet

(* sinceEdit stops counting one step after the quiet period. *)
SinceCap == DEFAULT_TIMER_TIME + Step

(* Values the user can give the editor: empty, one line, two lines, a text  *)
(* with an empty line in the middle, a lone line break.                    *)
EditTexts ==
    { <<>>, <<"a">>, <<"a", NL, "a">>, <<"a", NL, NL, "a">>, <<NL>> }

(* What findall(...)[0] evaluates to when findall returns the empty list. *)
IndexError == <<"IndexError">>

----------------------------------------------------------------------------
(* Codec *)

(* Index of the first occurrence of tok in s at or after position i, 0 if none. *)
RECURSIVE Find(_, _, _)
Find(s, tok, i) ==
    IF i > Len(s) THEN 0
    ELSE IF s[i] = tok THEN i
    ELSE Find(s, tok, i + 1)

(* str.split('\n') *)
RECURSIVE Split(_)
Split(s) ==
    LET i == Find(s, NL, 1)
    IN  IF i = 0 THEN <<s>>
        ELSE <<SubSeq(s, 1, i - 1)>> \o Split(SubSeq(s, i + 1, Len(s)))

RECURSIVE WrapLines(_)
WrapLines(arr) ==
    IF arr = <<>> THEN <<>>
    ELSE <<P_OPEN>> \o Head(arr) \o <<P_CLOSE>> \o WrapLines(Tail(arr))

SerializeBody(str) ==
    <<DIV_BODY>> \o WrapLines(Split(str)) \o <<DIV_CLOSE>>

(* re_get_body.findall(source): the groups of the non-overlapping matches, *)
(* here only the first is needed; <<>> stands for the empty list.          *)
FirstBodyMatch(src) ==
    LET i == Find(src, DIV_BODY, 1)
        j == IF i = 0 THEN 0 ELSE Find(src, DIV_CLOSE, i + 1)
    IN  IF j = 0 THEN <<>> ELSE <<SubSeq(src, i + 1, j - 1)>>

(* re_replace1.sub('\g<1>\n', body) *)
RECURSIVE ReplaceParagraphs(_)
ReplaceParagraphs(b) ==
    LET i == Find(b, P_OPEN, 1)
        j == IF i = 0 THEN 0 ELSE Find(b, P_CLOSE, i + 1)
    IN  IF j = 0 THEN b
        ELSE SubSeq(b, 1, i - 1) \o SubSeq(b, i + 1, j - 1) \o <<NL>>
             \o ReplaceParagraphs(SubSeq(b, j + 1, Len(b)))

(* The paragraph segments of a piece of markup: what <p>(.*?)</p> matches, *)
(* in order.                                                               *)
RECURSIVE Paragraphs(_)
Paragraphs(b) ==
    LET i == Find(b, P_OPEN, 1)
        j == IF i = 0 THEN 0 ELSE Find(b, P_CLOSE, i + 1)
    IN  IF j = 0 THEN <<>>
        ELSE <<SubSeq(b, i + 1, j - 1)>> \o Paragraphs(SubSeq(b, j + 1, Len(b)))

GetBodyFromSource(src) ==
    LET m == FirstBodyMatch(src)
    IN  IF m = <<>> THEN IndexError ELSE ReplaceParagraphs(m[1])

(* Stored sources a memo can arrive with: what an earlier save wrote, a    *)
(* page whose source is empty, a page without a body container, and a page *)
(* whose body container follows another div.                               *)
InitSources ==
    { SerializeBody(t) : t \in EditTexts }
    \cup { <<>>,
           <<DIV_PLAIN, "a", DIV_CLOSE>>,
           <<DIV_PLAIN, "a", DIV_CLOSE, DIV_BODY, P_OPEN, "a", P_CLOSE, DIV_CLOSE>> }

----------------------------------------------------------------------------
(* Session state *)

None == <<"None">>

(* Titles: the one the memo arrives with, and what the user can have in   *)
(* the title field when pressing the modify button: nothing, or a new one. *)
InitTitle == <<"t">>

ProposedTitles == { <<>>, <<"u">> }

NoSave == [kind |-> "none", quiet |-> 0, edits |-> 0]

Min(a, b) == IF a < b THEN a ELSE b

(* Status of the session in the terms of the design: a save call that has  *)
(* not returned is Saving; otherwise is_modified tells Dirty from Clean.   *)
Status ==
    IF pc = "saving" THEN "Saving"
    ELSE IF is_modified THEN "Dirty" ELSE "Clean"

(* The session as NormalNote.__init__ leaves it for a memo whose page is   *)
(* set or not and whose stored source is src.                              *)
InitFrom(page, src) ==
        LET b == IF page THEN GetBodyFromSource(src) ELSE None
        IN  /\ hasPage = page
            /\ source = src
            /\ created = (b # IndexError)
            /\ body = b
            /\ text = IF b \in {IndexError, None} THEN <<>> ELSE b
            /\ is_modified = FALSE
            /\ timer = [running |-> FALSE, left |-> 0]
            /\ shown = (b # IndexError)
            /\ closed = FALSE
            /\ pc = "idle"
            /\ payload = <<>>
            /\ queue = <<>>
            /\ sinceEdit = SinceCap
            /\ editsSince = 0
            /\ save = NoSave
            /\ lastOutcome = "none"
            /\ via = "direct"
            /\ is_open = TRUE
            /\ storedOpen = TRUE
            /\ on_modifying = FALSE
            /\ title = InitTitle
            /\ inflight = 0

(* NoteTaskBar.__init__: no selection dialog; no memo asked for yet. *)
NoteTaskBarInit ==
    /\ select_memo = None
    /\ selected_type = 0
    /\ dlg_title = <<>>
    /\ dialogs = 0
    /\ memos = <<>>
    /\ lastNew = "none"

Init ==
    /\ \E page \in BOOLEAN :
       \E src \in (IF page THEN InitSources ELSE {<<>>}) : InitFrom(page, src)
    /\ NoteTaskBarInit

----------------------------------------------------------------------------
(* Timer *)

(* Variant: a timer that is already running is left to run out. *)
StartTimerKeepsRunning(t, max_time) ==
    IF t.running THEN t ELSE [running |-> TRUE, left |-> max_time]

(* Variant: the running timer is stopped and the new one never started. *)
StartTimerStopsOnly(t, max_time) ==
    IF t.running THEN [running |-> FALSE, left |-> 0]
    ELSE [running |-> TRUE, left |-> max_time]

StartTimer(t, max_time) ==
    LET stopped == IF t.running THEN [running |-> FALSE, left |-> 0] ELSE t
    IN  [stopped EXCEPT !.running = TRUE, !.left = max_time]

(* Variant: Stop has no effect on the timer. *)
StopTimerLeavesRunning(t) == t

StopTimer(t) == [running |-> FALSE, left |-> 0]

(* wx.Timer.Start(ms) starts a continuous timer: when it notifies, it is   *)
(* already running towards its next notification.                          *)
TimerNotify(t) == [running |-> TRUE, left |-> DEFAULT_TIMER_TIME]

(* Variant: the flag is cleared, as SetStatusRecent does. *)
SetStatusModifiedClears == FALSE

SetStatusModified == TRUE

SetStatusRecent == FALSE

(* Variant: input is delivered while a handler waits in save_memo. *)
HandlerReentrant == pc \in {"idle", "saving"}

(* Handlers run one at a time on the GUI thread: none starts while a save  *)
(* call made by another has not returned.                                  *)
HandlerIdle == pc = "idle"

----------------------------------------------------------------------------
(* Handlers *)

(* What memo.save_memo() uploads: the note's serialized body. *)
SavePayload == SerializeBody(text)

(* The saves the note's own handlers make, as opposed to the memo list's. *)
NoteSaves == {"timer", "status"}

(* A handler calls memo.save_memo(): the call blocks the handler until the *)
(* service answers.                                                        *)
CallSaveMemo(kind) ==
    /\ pc' = "saving"
    /\ inflight' = inflight + 1
    /\ payload' = SavePayload
    /\ save' = [kind |-> kind, quiet |-> sinceEdit, edits |-> editsSince]
    /\ editsSince' = IF kind \in NoteSaves THEN 0 ELSE editsSince

UpdateNote(kind) == CallSaveMemo(kind)

(* Variant: the edit starts the timer without marking the note modified. *)
OnChangeTimerOnly(value, how) ==
    /\ text' = value
    /\ is_modified' = is_modified
    /\ timer' = StartTimer(timer, DEFAULT_TIMER_TIME)
    /\ sinceEdit' = 0
    /\ editsSince' = Min(editsSince + 1, MaxEdits)
    /\ via' = how
    /\ UNCHANGED <<created, hasPage, source, body, shown, closed, pc, payload,
                   save, lastOutcome, listVars, storedOpen, inflight>>

OnChange(value, how) ==
    /\ text' = value
    /\ is_modified' = SetStatusModified
    /\ timer' = StartTimer(timer, DEFAULT_TIMER_TIME)
    /\ sinceEdit' = 0
    /\ editsSince' = Min(editsSince + 1, MaxEdits)
    /\ via' = how
    /\ UNCHANGED <<created, hasPage, source, body, shown, closed, pc, payload,
                   save, lastOutcome, listVars, storedOpen, inflight>>

(* Variant: the handler does not stop the timer, which goes on running     *)
(* towards its next notification.                                          *)
OnTimerEventRearms ==
    /\ timer' = TimerNotify(timer)
    /\ UpdateNote("timer")
    /\ via' = "timer"
    /\ UNCHANGED <<created, hasPage, source, body, text, is_modified, shown,
                   closed, sinceEdit, lastOutcome, listVars, storedOpen>>

OnTimerEvent ==
    /\ timer' = StopTimer(TimerNotify(timer))
    /\ UpdateNote("timer")
    /\ via' = "timer"
    /\ UNCHANGED <<created, hasPage, source, body, text, is_modified, shown,
                   closed, sinceEdit, lastOutcome, listVars, storedOpen>>

(* Variant: the status button uploads without stopping the timer. *)
OnStatusKeepsTimer(how) ==
    /\ via' = how
    /\ IF is_modified
       THEN /\ timer' = timer
            /\ UpdateNote("status")
       ELSE UNCHANGED <<timer, pc, payload, save, editsSince, inflight>>
    /\ UNCHANGED <<created, hasPage, source, body, text, is_modified, shown,
                   closed, sinceEdit, lastOutcome, listVars, storedOpen>>

(* Variant: the status button uploads whether or not the note is modified. *)
OnStatusAlways(how) ==
    /\ via' = how
    /\ timer' = StopTimer(timer)
    /\ UpdateNote("status")
    /\ UNCHANGED <<created, hasPage, source, body, text, is_modified, shown,
                   closed, sinceEdit, lastOutcome, listVars, storedOpen>>

OnStatus(how) ==
    /\ via' = how
    /\ IF is_modified
       THEN /\ timer' = StopTimer(timer)
            /\ UpdateNote("status")
       ELSE UNCHANGED <<timer, pc, payload, save, editsSince, inflight>>
    /\ UNCHANGED <<created, hasPage, source, body, text, is_modified, shown,
                   closed, sinceEdit, lastOutcome, listVars, storedOpen>>

(* Variant: closing the note also stops its timer. *)
CloseNoteStopsTimer(how) ==
    /\ shown' = FALSE
    /\ closed' = TRUE
    /\ timer' = StopTimer(timer)
    /\ via' = how
    /\ UNCHANGED <<created, hasPage, source, body, text, is_modified,
                   pc, payload, sinceEdit, editsSince, save, lastOutcome,
                   listVars, storedOpen, inflight>>

(* memo.close_memo(): the memo is told that its note is closed. *)
close_memo == closed' = TRUE

(* OnClose -> CloseNote: hide the frame, tell the memo it is closed. *)
CloseNote(how) ==
    /\ shown' = FALSE
    /\ close_memo
    /\ via' = how
    /\ UNCHANGED <<created, hasPage, source, body, text, is_modified, timer,
                   pc, payload, sinceEdit, editsSince, save, lastOutcome,
                   listVars, storedOpen, inflight>>

(* Variant: is_open is flipped and the note shown or hidden, nothing is    *)
(* uploaded.                                                               *)
OnButtonIsOpenNoUpload(how) ==
    /\ is_open' = ~is_open
    /\ shown' = ~is_open
    /\ via' = how
    /\ UNCHANGED <<created, hasPage, source, body, text, is_modified, timer,
                   closed, pc, payload, sinceEdit, editsSince, save,
                   lastOutcome, storedOpen, on_modifying, title, inflight>>

(* MemoNode.OnButtonIsOpen: flip is_open, show or hide the note to match,  *)
(* upload.                                                                 *)
OnButtonIsOpen(how) ==
    /\ is_open' = ~is_open
    /\ shown' = ~is_open
    /\ CallSaveMemo("isopen")
    /\ via' = how
    /\ UNCHANGED <<created, hasPage, source, body, text, is_modified, timer,
                   closed, sinceEdit, lastOutcome, storedOpen, on_modifying,
                   title>>

(* memo.set_title(): the memo takes the new title. *)
set_title(value) == title' = value

(* Variant: the length of the title field is not looked at. *)
OnButtonModifyAnyTitle(enter, value, how) ==
    /\ via' = how
    /\ IF enter /\ ~on_modifying
       THEN UNCHANGED <<on_modifying, title, pc, payload, save, editsSince,
                        inflight>>
       ELSE IF ~on_modifying
       THEN /\ on_modifying' = TRUE
            /\ UNCHANGED <<title, pc, payload, save, editsSince, inflight>>
       ELSE /\ title' = value
            /\ CallSaveMemo("title")
            /\ UNCHANGED on_modifying
    /\ UNCHANGED <<created, hasPage, source, body, text, is_modified, timer,
                   shown, closed, sinceEdit, lastOutcome, is_open, storedOpen>>

(* MemoNode.OnButtonModify, bound to the modify button and to Enter in the *)
(* title field; value is what the title field holds.                       *)
OnButtonModify(enter, value, how) ==
    /\ via' = how
    /\ IF enter /\ ~on_modifying
       THEN UNCHANGED <<on_modifying, title, pc, payload, save, editsSince,
                        inflight>>
       ELSE IF ~on_modifying
       THEN /\ on_modifying' = TRUE
            /\ UNCHANGED <<title, pc, payload, save, editsSince, inflight>>
       ELSE IF Len(value) > 0
       THEN /\ set_title(value)
            /\ CallSaveMemo("title")
            /\ UNCHANGED on_modifying
       ELSE UNCHANGED <<on_modifying, title, pc, payload, save, editsSince,
                        inflight>>
    /\ UNCHANGED <<created, hasPage, source, body, text, is_modified, timer,
                   shown, closed, sinceEdit, lastOutcome, is_open, storedOpen>>

(* The ways memo.save_memo() can end: the page is stored, the service      *)
(* reports a failure as the call's result, or the failure is raised.       *)
SaveOutcomes == {"success", "failure", "raise"}

(* The effect of memo.save_memo() on the memo: a successful update stores  *)
(* the payload as the page's source.                                       *)
save_memo(outcome) ==
    /\ source' = IF outcome = "success" THEN payload ELSE source
    /\ hasPage' = IF outcome = "success" THEN TRUE ELSE hasPage
    /\ storedOpen' = IF outcome = "success" THEN is_open ELSE storedOpen

(* save_memo returns (or raises) and the rest of the handler that called  *)
(* it runs, unless the exception skipped it: SetStatusRecent in            *)
(* OnTimerEvent and OnStatus, the end of the title edit in OnButtonModify, *)
(* nothing of the state in OnButtonIsOpen.                                 *)
SaveReturns(outcome) ==
    /\ UNCHANGED taskVars
    /\ created
    /\ pc = "saving"
    /\ pc' = "idle"
    /\ inflight' = inflight - 1
    /\ save_memo(outcome)
    /\ is_modified' = IF save.kind \in NoteSaves /\ outcome # "raise"
                      THEN SetStatusRecent ELSE is_modified
    /\ on_modifying' = IF save.kind = "title" /\ outcome # "raise"
                       THEN FALSE ELSE on_modifying
    /\ payload' = <<>>
    /\ save' = NoSave
    /\ lastOutcome' = IF save.kind \in NoteSaves THEN outcome ELSE lastOutcome
    /\ UNCHANGED <<created, body, text, timer, shown, closed, queue,
                   sinceEdit, editsSince, via, is_open, title>>

----------------------------------------------------------------------------
(* Event loop *)

(* Input to the note's frame. *)
UIEvents ==
    { [type |-> "text", value |-> t] : t \in EditTexts }
    \cup { [type |-> "status", value |-> <<>>], [type |-> "close", value |-> <<>>] }

(* Input to the memo's row in the memo list. *)
ListEvents ==
    { [type |-> "isopen", value |-> <<>>] }
    \cup { [type |-> "modify", value |-> v] : v \in ProposedTitles }
    \cup { [type |-> "enter", value |-> v] : v \in ProposedTitles }

Handle(e, how) ==
    CASE e.type = "text" -> OnChange(e.value, how)
      [] e.type = "status" -> OnStatus(how)
      [] e.type = "close" -> CloseNote(how)
      [] e.type = "isopen" -> OnButtonIsOpen(how)
      [] e.type = "modify" -> OnButtonModify(FALSE, e.value, how)
      [] e.type = "enter" -> OnButtonModify(TRUE, e.value, how)

(* The editor text once the events already queued have been delivered. *)
RECURSIVE EffectiveText(_, _)
EffectiveText(q, t) ==
    IF q = <<>> THEN t
    ELSE EffectiveText(Tail(q), IF Head(q).type = "text" THEN Head(q).value ELSE t)

CloseQueued == \E i \in 1..Len(queue) : queue[i].type \in {"close", "isopen"}

(* The user acts on the visible note while the GUI thread is free. *)
User(e) ==
    /\ UNCHANGED taskVars
    /\ created /\ shown
    /\ HandlerIdle
    /\ queue = <<>>
    /\ e.type = "text" => e.value # text
    /\ Handle(e, "direct")
    /\ UNCHANGED queue

(* The user acts while a handler is blocked in save_memo: the event waits. *)
Post(e) ==
    /\ UNCHANGED taskVars
    /\ created /\ shown
    /\ pc = "saving"
    /\ Len(queue) < MaxQueue
    /\ ~CloseQueued
    /\ e.type = "text" => e.value # EffectiveText(queue, text)
    /\ queue' = Append(queue, e)
    /\ UNCHANGED <<created, hasPage, source, body, text, is_modified, timer,
                   shown, closed, pc, payload, sinceEdit, editsSince,
                   save, lastOutcome, via, listVars, storedOpen, inflight>>

(* The user acts on the memo's row in the memo list. *)
ListUser(e) ==
    /\ UNCHANGED taskVars
    /\ created
    /\ HandlerIdle
    /\ queue = <<>>
    /\ e.type # "isopen" => e.value = <<>> \/ on_modifying
    /\ Handle(e, "direct")
    /\ UNCHANGED queue

ListPost(e) ==
    /\ UNCHANGED taskVars
    /\ created
    /\ pc = "saving"
    /\ Len(queue) < MaxQueue
    /\ e.type # "isopen" => e.value = <<>> \/ on_modifying
    /\ queue' = Append(queue, e)
    /\ UNCHANGED <<created, hasPage, source, body, text, is_modified, timer,
                   shown, closed, pc, payload, sinceEdit, editsSince,
                   save, lastOutcome, via, listVars, storedOpen, inflight>>

Dispatch ==
    /\ UNCHANGED taskVars
    /\ created
    /\ HandlerIdle
    /\ queue # <<>>
    /\ Handle(Head(queue), "queued")
    /\ queue' = Tail(queue)

(* Variant: the timer's notification is delivered while a handler waits in *)
(* save_memo.                                                              *)
TimerExpireDuringSave ==
    /\ UNCHANGED taskVars
    /\ created
    /\ queue = <<>>
    /\ timer.running
    /\ timer.left = 0
    /\ OnTimerEvent
    /\ UNCHANGED queue

TimerExpire ==
    /\ UNCHANGED taskVars
    /\ created
    /\ HandlerIdle
    /\ queue = <<>>
    /\ timer.running
    /\ timer.left = 0
    /\ OnTimerEvent
    /\ UNCHANGED queue

(* Time passes, never past the moment at which a running timer is due. *)
Tick ==
    /\ UNCHANGED taskVars
    /\ created
    /\ pc = "saving" \/ queue = <<>>
    /\ LET d == IF timer.running THEN Min(Step, timer.left) ELSE Step
       IN  /\ d > 0
           /\ timer' = IF timer.running
                        THEN [timer EXCEPT !.left = timer.left - d]
                        ELSE timer
           /\ sinceEdit' = Min(sinceEdit + d, SinceCap)
    /\ UNCHANGED <<created, hasPage, source, body, text, is_modified,
                   shown, closed, pc, payload, queue, editsSince,
                   save, lastOutcome, via, listVars, storedOpen, inflight>>

(* The note's frame on its own. *)
Next ==
    \/ \E e \in UIEvents : User(e)
    \/ \E e \in UIEvents : Post(e)
    \/ Dispatch
    \/ TimerExpire
    \/ \E o \in SaveOutcomes : SaveReturns(o)
    \/ Tick

Spec == Init /\ [][Next]_vars

(* Time passes for a running timer; the history of the last edit's age is  *)
(* not kept here.                                                          *)
ListTick ==
    /\ UNCHANGED taskVars
    /\ created
    /\ pc = "saving" \/ queue = <<>>
    /\ timer.running
    /\ LET d == Min(Step, timer.left)
       IN  /\ d > 0
           /\ timer' = [timer EXCEPT !.left = timer.left - d]
    /\ UNCHANGED <<created, hasPage, source, body, text, is_modified,
                   shown, closed, pc, payload, queue, sinceEdit, editsSince,
                   save, lastOutcome, via, listVars, storedOpen, inflight>>

(* The note's frame together with the memo's row in the memo list, for a   *)
(* stored one-line memo and a user who types one line or clears the text.  *)
ListTexts == { <<>>, <<"a">> }

ListUIEvents == { e \in UIEvents : e.type = "text" => e.value \in ListTexts }

ListInit == InitFrom(TRUE, SerializeBody(<<"a">>)) /\ NoteTaskBarInit

ListNext ==
    \/ \E e \in ListUIEvents : User(e)
    \/ \E e \in ListUIEvents : Post(e)
    \/ \E e \in ListEvents : ListUser(e)
    \/ \E e \in ListEvents : ListPost(e)
    \/ Dispatch
    \/ TimerExpire
    \/ \E o \in SaveOutcomes : SaveReturns(o)
    \/ ListTick

ListSpec == ListInit /\ [][ListNext]_vars

----------------------------------------------------------------------------
(* Task bar icon and selection dialog *)

(* The value of select_memo while a dialog is referred to. *)
SelectNoteDlg == <<"SelectNoteDlg">>

(* The choices of the dialog's radio box, and what the user can have typed *)
(* into its title field.                                                   *)
RadioChoices == {0, 1, 2}

DlgTitles == { <<>>, <<"u">>, <<"v">> }

GetSelectedType ==
    CASE selected_type = 0 -> 1
      [] selected_type = 1 -> 2
      [] selected_type = 2 -> 3
      [] OTHER -> 0

(* controller.create_new_memo(type, title, sub=True): the memo asked for. *)
create_new_memo(type, t) == [type |-> type, title |-> t]

(* Variant: a dialog is constructed whatever select_memo holds. *)
OnNewUnguarded ==
    /\ select_memo' = SelectNoteDlg
    /\ dialogs' = dialogs + 1
    /\ selected_type' = 0
    /\ dlg_title' = <<>>
    /\ lastNew' = "opened"
    /\ UNCHANGED memos

(* NoteTaskBar.OnNew up to ShowModal(): the dialog is constructed, with    *)
(* the first type selected and an empty title, and shown; or, with         *)
(* select_memo set, nothing is done.                                       *)
OnNew ==
    IF select_memo = None
    THEN /\ select_memo' = SelectNoteDlg
         /\ dialogs' = dialogs + 1
         /\ selected_type' = 0
         /\ dlg_title' = <<>>
         /\ lastNew' = "opened"
         /\ UNCHANGED memos
    ELSE /\ lastNew' = "ignored"
         /\ UNCHANGED <<select_memo, selected_type, dlg_title, dialogs, memos>>

(* ShowModal() returns rval and the rest of OnNew runs: the memo is asked  *)
(* for if rval is ID_OK, the dialog is destroyed, select_memo is reset.    *)
ShowModalReturns(rval) ==
    /\ memos' = IF rval = "ID_OK"
                THEN Append(memos, create_new_memo(GetSelectedType, dlg_title))
                ELSE memos
    /\ dialogs' = dialogs - 1
    /\ select_memo' = None
    /\ selected_type' = 0
    /\ dlg_title' = <<>>
    /\ UNCHANGED lastNew

(* SelectNoteDlg.OnOk: EndModal(ID_OK) unless the title field is empty. *)
OnOk ==
    IF Len(dlg_title) > 0
    THEN ShowModalReturns("ID_OK")
    ELSE UNCHANGED taskVars

(* SelectNoteDlg.OnCancel: EndModal(ID_CANCEL). *)
OnCancel == ShowModalReturns("ID_CANCEL")

OnRadioChanged(sel) ==
    /\ selected_type' = sel
    /\ UNCHANGED <<select_memo, dlg_title, dialogs, memos, lastNew>>

(* The user picks "new memo" in the task bar icon's menu, also while a     *)
(* dialog is shown.                                                        *)
MenuNew ==
    /\ Len(memos) < MaxMemos
    /\ OnNew
    /\ UNCHANGED noteVars

(* The user acts on the dialog that is shown. *)
DlgOk ==
    /\ dialogs > 0
    /\ OnOk
    /\ UNCHANGED noteVars

DlgCancel ==
    /\ dialogs > 0
    /\ OnCancel
    /\ UNCHANGED noteVars

DlgRadio(sel) ==
    /\ dialogs > 0
    /\ sel # selected_type
    /\ OnRadioChanged(sel)
    /\ UNCHANGED noteVars

DlgType(v) ==
    /\ dialogs > 0
    /\ v # dlg_title
    /\ dlg_title' = v
    /\ UNCHANGED <<select_memo, selected_type, dialogs, memos, lastNew>>
    /\ UNCHANGED noteVars

TaskBarNext ==
    \/ MenuNew
    \/ DlgOk
    \/ DlgCancel
    \/ \E sel \in RadioChoices : DlgRadio(sel)
    \/ \E v \in DlgTitles : DlgType(v)

TaskBarSpec == ListInit /\ [][TaskBarNext]_vars

(* The note's frame with a service whose saves all succeed, an event loop  *)
(* that goes on delivering what is due (the timer's notification, queued   *)
(* input, the return of the blocking call) and a clock that goes on        *)
(* running; the user is free to act or not.                                *)
LiveNext ==
    \/ \E e \in UIEvents : User(e)
    \/ \E e \in UIEvents : Post(e)
    \/ Dispatch
    \/ TimerExpire
    \/ SaveReturns("success")
    \/ ListTick

LiveSpec ==
    /\ Init
    /\ [][LiveNext]_vars
    /\ WF_vars(ListTick)
    /\ WF_vars(TimerExpire)
    /\ WF_vars(Dispatch)
    /\ WF_vars(SaveReturns("success"))

----------------------------------------------------------------------------
(* Properties *)

(* C1: a save begun by the timer begins exactly one quiet period after the *)
(* latest edit, follows at least one edit made since the previous save     *)
(* began (one save per burst), and carries the text as of that edit.       *)
C1_DebounceCoalescing ==
    (pc = "saving" /\ save.kind = "timer") =>
        /\ save.quiet = DEFAULT_TIMER_TIME
        /\ save.edits >= 1
        /\ payload = SerializeBody(text)

(* C1 witness: a timer save in flight that coalesced a burst of edits. *)
C1_Witness ==
    /\ pc = "saving" /\ save.kind = "timer"
    /\ save.edits >= 2
    /\ save.quiet = DEFAULT_TIMER_TIME
    /\ payload = SerializeBody(text)

(* C2: whenever a save attempt fails, the session is Dirty afterwards and  *)
(* the editor text is what it was before the attempt.                      *)
C2_FailureRetainsDirtiness ==
    [][(pc = "saving" /\ pc' = "idle" /\ lastOutcome' \in {"failure", "raise"})
        => (Status' = "Dirty" /\ text' = text)]_vars

(* C3: decoding the encoding of the editor text gives the editor text. *)
C3_RoundTrip ==
    created => GetBodyFromSource(SerializeBody(text)) = text

(* C4: encoding the decoded encoding of the editor text gives the same     *)
(* markup as encoding the text once.                                       *)
C4_Idempotence ==
    created =>
        SerializeBody(GetBodyFromSource(SerializeBody(text))) = SerializeBody(text)

(* C5: close-complete (the note hidden, close_memo called) is never        *)
(* reached from a Dirty session holding edits for which no save attempt    *)
(* has begun.                                                              *)
C5_CloseSavesFirst ==
    [][(~closed /\ closed') => ~(is_modified /\ editsSince > 0)]_vars

(* C6: for a memo whose stored source has no body container, decoding      *)
(* returns the empty text and the session is created.                      *)
C6_MissingContainer ==
    (hasPage /\ FirstBodyMatch(source) = <<>>) =>
        (GetBodyFromSource(source) = <<>> /\ created /\ text = <<>>)

(* C7: whenever the session is Clean, the editor text equals the decoded   *)
(* stored source.                                                          *)
C7_CleanMatchesSource ==
    (created /\ hasPage /\ Status = "Clean") => text = GetBodyFromSource(source)

(* C8 as stated: whenever the session is Dirty, the debounce timer is      *)
(* armed.                                                                  *)
C8_DirtyImpliesTimer ==
    (created /\ Status = "Dirty") => timer.running

(* C8 amended: whenever the session is Dirty, the debounce timer is armed, *)
(* unless the latest save attempt raised and no edit has been made since.  *)
C8_DirtyTimerUnlessFailed ==
    (created /\ Status = "Dirty") =>
        (timer.running \/ (lastOutcome = "raise" /\ editsSince = 0))

(* C8 witness: Dirty with the timer armed again by an edit made after a    *)
(* save attempt that raised.                                               *)
C8_Witness ==
    /\ Status = "Dirty" /\ timer.running
    /\ lastOutcome = "raise" /\ editsSince > 0

(* C9: an edit made while a save call is outstanding is not in that call's *)
(* payload, which is the encoding of the text the save began with; a       *)
(* session Clean after a successful save has the stored source encode its  *)
(* text; and the waiting edit, once delivered, sets the text, marks the    *)
(* session modified and arms the timer for a later save.                   *)
C9_EditDuringSave ==
    /\ [](pc = "saving" => payload = SerializeBody(text))
    /\ []((Status = "Clean" /\ lastOutcome = "success")
            => source = SerializeBody(text))
    /\ [][(pc = "idle" /\ queue # <<>> /\ Head(queue).type = "text")
            => /\ text' = Head(queue).value
               /\ is_modified' /\ timer'.running
               /\ source' = source]_vars

(* C9 witness: the save has settled successfully, the edit that waited for *)
(* it has been delivered, and the session is Dirty with the timer armed    *)
(* and the newer text not yet stored.                                      *)
C9_Witness ==
    /\ via = "queued" /\ shown /\ Status = "Dirty" /\ timer.running
    /\ lastOutcome = "success" /\ editsSince > 0
    /\ source # SerializeBody(text)

(* C10: while a save call is outstanding, close-complete is not signalled: *)
(* the note is not hidden and close_memo is not called.                    *)
C10_CloseWaitsForSave ==
    [][pc = "saving" => (closed' = closed /\ shown' = shown)]_vars

(* C10 witness: a close requested during a save has completed after it. *)
C10_Witness ==
    closed /\ ~shown /\ via = "queued" /\ lastOutcome # "none"

(* The visibility button's handler runs, on a session that is Clean. *)
ToggleOnClean ==
    /\ Status = "Clean"
    /\ \E how \in {"direct", "queued"} : OnButtonIsOpen(how)

(* The save call made by the visibility button's handler, on a session that *)
(* is not modified, returns with the page stored.                           *)
ToggleSaved ==
    /\ save.kind = "isopen" /\ ~is_modified
    /\ SaveReturns("success")

(* C11 as stated: toggling is_open on a Clean session marks the session    *)
(* Dirty and makes exactly one save call, after which the session is Clean *)
(* with the new is_open stored.                                            *)
C11_ToggleMarksDirty ==
    /\ [][ToggleOnClean => (is_modified' /\ inflight' = 1)]_vars
    /\ [][ToggleSaved => (Status' = "Clean" /\ storedOpen' = is_open')]_vars

(* C11 amended: toggling is_open on a Clean session does not mark it       *)
(* modified and arms no timer; the handler flips is_open and makes exactly *)
(* one save call at once; when that call has stored the page the session   *)
(* is Clean, the new is_open is stored, no save call is outstanding and no *)
(* timer is armed to make another.                                         *)
C11_ToggleSavesAtOnce ==
    /\ [][ToggleOnClean =>
            /\ ~is_modified' /\ ~timer'.running
            /\ is_open' = ~is_open
            /\ inflight = 0 /\ inflight' = 1
            /\ pc' = "saving" /\ save'.kind = "isopen"]_vars
    /\ [][ToggleSaved =>
            /\ Status' = "Clean" /\ storedOpen' = is_open'
            /\ inflight' = 0 /\ ~timer'.running]_vars

(* C11 witness: a memo never edited was closed from the list and the one   *)
(* save call stored the new is_open.                                       *)
C11_Witness ==
    /\ ~is_open /\ storedOpen = is_open /\ ~shown
    /\ Status = "Clean" /\ inflight = 0
    /\ editsSince = 0 /\ lastOutcome = "none"

(* The modify button is pressed, or Enter typed in the title field, while  *)
(* the title is being edited and the title field is empty.                 *)
EmptyTitleProposed ==
    /\ on_modifying
    /\ \/ \E e \in ListEvents :
            e.type \in {"modify", "enter"} /\ e.value = <<>> /\ ListUser(e)
       \/ /\ queue # <<>>
          /\ Head(queue).type \in {"modify", "enter"}
          /\ Head(queue).value = <<>>
          /\ Dispatch

(* C12: a rename whose proposed title is empty changes nothing: the title, *)
(* the session's status with its flag and timer, and the stored page are   *)
(* unchanged, the title stays under edit, and no save call is made.        *)
C12_EmptyTitleRejected ==
    [][EmptyTitleProposed =>
        /\ title' = title
        /\ Status' = Status
        /\ inflight' = 0 /\ pc' = "idle" /\ payload' = payload
        /\ UNCHANGED <<is_modified, timer, text, source, hasPage, storedOpen,
                       is_open, on_modifying>>]_vars

(* C12 witness: the title is under edit and a rename to the empty title,   *)
(* made while a save call was outstanding, is the next event delivered.    *)
C12_Witness ==
    /\ on_modifying /\ pc = "idle" /\ title = InitTitle
    /\ queue # <<>>
    /\ Head(queue).type \in {"modify", "enter"} /\ Head(queue).value = <<>>

(* C13: at most one save call is outstanding at any time, and a handler    *)
(* that begins one (timer expiry, status button, visibility toggle, title  *)
(* rename) begins it when none is outstanding; a close request begins none. *)
C13_OneSaveInFlight ==
    /\ [](inflight \in {0, 1} /\ (inflight = 1 <=> pc = "saving"))
    /\ [][inflight' > inflight => (inflight = 0 /\ inflight' = 1)]_vars
    /\ [][closed' # closed => inflight' = inflight]_vars

(* C13 witness: a save call made from the memo list is outstanding, the    *)
(* session is modified, its timer has run out and a press of the status    *)
(* button is waiting: two further triggers held back by the one call.      *)
C13_Witness ==
    /\ inflight = 1 /\ save.kind \in {"isopen", "title"}
    /\ is_modified /\ timer.running /\ timer.left = 0
    /\ queue # <<>> /\ Head(queue).type = "status"

(* The status button's handler runs. *)
StatusPressed ==
    \/ \E e \in UIEvents : e.type = "status" /\ User(e)
    \/ queue # <<>> /\ Head(queue).type = "status" /\ Dispatch

(* C14: when the status button is pressed on a Clean session, no save call *)
(* is made, the timer is neither armed nor cancelled, and the status, the  *)
(* editor text and the stored source are unchanged.                        *)
C14_StatusOnCleanNoOp ==
    [][(StatusPressed /\ Status = "Clean") =>
        /\ inflight' = 0 /\ pc' = "idle" /\ payload' = payload
        /\ timer' = timer
        /\ Status' = "Clean"
        /\ text' = text /\ source' = source /\ hasPage' = hasPage]_vars

(* C14 witness: the session is Clean after a successful save of its edits  *)
(* and a press of the status button made meanwhile is delivered next.      *)
C14_Witness ==
    /\ Status = "Clean" /\ lastOutcome = "success"
    /\ source = SerializeBody(text)
    /\ queue # <<>> /\ Head(queue).type = "status"

(* C15: a press of the status button on a Dirty session stops the timer    *)
(* and begins exactly one save at once, with the encoding of the editor    *)
(* text; no timer runs while that save is outstanding, and a timer runs    *)
(* only if an edit has been made since the latest save began, so the       *)
(* stopped timer causes no save of the edits already sent.                 *)
C15_ExplicitSaveCancelsTimer ==
    /\ [][(StatusPressed /\ Status = "Dirty") =>
            /\ ~timer'.running
            /\ inflight = 0 /\ inflight' = 1
            /\ pc' = "saving" /\ save'.kind = "status"
            /\ payload' = SerializeBody(text)]_vars
    /\ []((pc = "saving" /\ save.kind = "status") => ~timer.running)
    /\ [](timer.running => editsSince >= 1)

(* C15 witness: a save begun by the status button is outstanding, made     *)
(* before the quiet period of the latest edit was over, and the timer that *)
(* edit had armed is stopped.                                              *)
C15_Witness ==
    /\ pc = "saving" /\ save.kind = "status"
    /\ save.edits >= 1 /\ save.quiet < DEFAULT_TIMER_TIME
    /\ ~timer.running
    /\ payload = SerializeBody(text)

(* C16: once a close request has been processed, no timer is armed for    *)
(* the session and no save begun by the timer's expiry is outstanding.     *)
C16_CloseCancelsTimer ==
    closed => (~timer.running /\ ~(pc = "saving" /\ save.kind = "timer"))

(* C17: encoding emits one paragraph segment per line of the text, in      *)
(* order, an empty one for every empty line; and for a text of three lines *)
(* of which only the middle one is empty, decoding the encoding returns    *)
(* those three lines.                                                      *)
C17_EmptyLinePreservation ==
    created =>
        LET lines == Split(text)
        IN  /\ Paragraphs(SerializeBody(text)) = lines
            /\ (Len(lines) = 3 /\ lines[1] # <<>> /\ lines[2] = <<>>
                    /\ lines[3] # <<>>)
                => Split(GetBodyFromSource(SerializeBody(text))) = lines

(* C18: the encoding of the empty text is a body container with no         *)
(* paragraph segment in it.                                                *)
C18_EmptyTextNoParagraph ==
    (created /\ text = <<>>) =>
        /\ Paragraphs(SerializeBody(text)) = <<>>
        /\ SerializeBody(text) = <<DIV_BODY, DIV_CLOSE>>

(* A save call of the note ends in failure, returned or raised. *)
SaveFails ==
    /\ save.kind \in NoteSaves
    /\ SaveReturns("failure") \/ SaveReturns("raise")

Failed == lastOutcome \in {"failure", "raise"}

(* C19: when a save fails the timer is left as it was, stopped; as long as  *)
(* no edit has been made since, no timer is armed, and a save that begins  *)
(* is begun by the handler of a user's request, never by the timer's.      *)
C19_NoRearmAfterFailure ==
    /\ [][SaveFails => (timer' = timer /\ ~timer'.running)]_vars
    /\ []((Failed /\ editsSince = 0) => ~timer.running)
    /\ [][(Failed /\ editsSince = 0 /\ inflight' > inflight)
            => (save'.kind # "timer" /\ via' # "timer")]_vars

(* C19 witness: a save begun by the timer raised, no edit was made since,  *)
(* more than a quiet period has passed, and the session is still modified  *)
(* with no timer armed and no save outstanding.                            *)
C19_Witness ==
    /\ lastOutcome = "raise" /\ via = "timer" /\ editsSince = 0
    /\ sinceEdit = SinceCap
    /\ pc = "idle" /\ is_modified /\ ~timer.running

(* C20: when the timer runs out, its handler stops it and begins exactly   *)
(* one save, carrying the encoding of the editor text, for edits made      *)
(* since the previous save began; and a stopped timer is started again     *)
(* only by an edit.                                                        *)
C20_TimerFiresOncePerArming ==
    /\ [][TimerExpire =>
            /\ ~timer'.running
            /\ inflight = 0 /\ inflight' = 1
            /\ pc' = "saving" /\ save'.kind = "timer"
            /\ payload' = SerializeBody(text)
            /\ editsSince >= 1 /\ editsSince' = 0]_vars
    /\ [][(~timer.running /\ timer'.running)
            => (editsSince' >= 1 /\ sinceEdit' = 0 /\ is_modified'
                /\ timer'.left = DEFAULT_TIMER_TIME)]_vars

(* C20 witness: the timer has fired a second time, after an edit made once *)
(* an earlier save had settled armed it again; it is stopped and its one   *)
(* save is outstanding.                                                    *)
C20_Witness ==
    /\ pc = "saving" /\ save.kind = "timer" /\ via = "timer"
    /\ inflight = 1 /\ ~timer.running
    /\ lastOutcome # "none" /\ save.edits = 1

(* C22: the timer runs only while the note is modified; a newly created    *)
(* note is not modified and its timer does not run; so the timer never     *)
(* runs out on an unmodified note, and the save its handler begins always  *)
(* follows an edit made since the previous save began.                     *)
C22_TimerOnlyIfModified ==
    /\ [](timer.running => is_modified)
    /\ [](lastOutcome = "none" /\ editsSince = 0 /\ pc = "idle"
            => (~is_modified /\ ~timer.running))
    /\ [][TimerExpire => (is_modified /\ Status = "Dirty" /\ editsSince >= 1)]_vars

(* C22 witness: a save was answered with a failure, which left the note    *)
(* unmodified; a later edit marked it modified and started the timer, and  *)
(* the save begun when that timer ran out is outstanding.                  *)
C22_Witness ==
    /\ pc = "saving" /\ save.kind = "timer" /\ save.edits >= 1
    /\ lastOutcome = "failure"
    /\ is_modified /\ ~timer.running

(* C21: with saves that succeed and a timer that runs out when armed, if   *)
(* from some point on the editor text no longer changes, then from some    *)
(* point on the session is Clean and, unless the text was never edited,    *)
(* the stored source is the encoding of the editor text: the latest text   *)
(* has been saved.  A close request after the last edit does not prevent   *)
(* it.                                                                     *)
C21_NoEditLost ==
    <>[][text' = text]_vars =>
        <>[](created =>
                /\ Status = "Clean"
                /\ lastOutcome = "none" \/ source = SerializeBody(text))

(* C21 witness: the note was closed with an edit not yet saved, and the    *)
(* save begun afterwards by the timer has stored the latest text.          *)
C21_Witness ==
    /\ closed /\ ~shown /\ via = "timer"
    /\ Status = "Clean" /\ lastOutcome = "success"
    /\ source = SerializeBody(text) /\ ~timer.running

(* C23: at most one selection dialog exists, and select_memo is set        *)
(* exactly while it does; a "new memo" request made while a dialog is open *)
(* constructs no dialog, asks for no memo and leaves the open dialog as it *)
(* is; when the dialog is dismissed it is destroyed and select_memo reset; *)
(* and a request made with select_memo reset opens a dialog.               *)
C23_SingleDialog ==
    /\ [](dialogs \in {0, 1} /\ (dialogs = 1 <=> select_memo # None))
    /\ [][(MenuNew /\ select_memo # None) =>
            UNCHANGED <<dialogs, memos, select_memo, selected_type,
                        dlg_title>>]_vars
    /\ [][dialogs' < dialogs => (dialogs' = 0 /\ select_memo' = None)]_vars
    /\ [][(MenuNew /\ select_memo = None) =>
            (dialogs' = 1 /\ select_memo' = SelectNoteDlg)]_vars

(* C23 witness: a first dialog was dismissed with OK and its memo asked    *)
(* for, a later request has opened a dialog again, and a further request   *)
(* made while that one is open was ignored.                                *)
C23_Witness ==
    /\ Len(memos) >= 1
    /\ dialogs = 1 /\ select_memo = SelectNoteDlg
    /\ lastNew = "ignored"

====
